---- MODULE Spec2Model ----
(***************************************************************************)
(* A model of the EVM client (EVMClient) and of the plugin that owns it    *)
(* (EVMPlugin): the connection pool, the identity pool, the current-       *)
(* network cursor, and the sendTransaction, contract and query calls with  *)
(* their suspension points.                                                *)
(*                                                                         *)
(* JavaScript runs every handler to its next await without interleaving,   *)
(* so one action is the code between two awaits.  A connection object is   *)
(* identified by the network name it was created for (one per name).       *)
(***************************************************************************)
EXTENDS Integers, Sequences, FiniteSets, TLC

VARIABLES
    evmConfig,       \* EVMPlugin.evmConfig, handed to every new EVMClient
    client,          \* EVMPlugin.client: "null" or "ready"
    initPc,          \* position of a running EVMPlugin.init()
    providers,       \* EVMClient.providers: the names that have a connection
    wallets,         \* EVMClient.wallets: Map in insertion order, as a sequence
    currentNetwork,  \* EVMClient.currentNetwork
    last,            \* outcome of the latest synchronous operation
    calls,           \* the sendTransaction calls: position and locals of each
    sent,            \* every submission a signer made to a node, in order
    chain,           \* what the network did with the transaction of each call
    ops,             \* the contract and query calls: position and locals of each
    connections,     \* the network each JsonRpcProvider of the pool was given
    tools,           \* EVMPlugin.tools: Map in insertion order, as a sequence
    configTools,     \* EVMPlugin.config.tools
    execs,           \* the tool executions: position of each
    initSucceeded    \* an init() has logged 'EVM plugin initialized successfully'

vars == <<evmConfig, client, initPc, providers, wallets, currentNetwork,
          last, calls, sent, chain, ops, connections, tools, configTools,
          execs, initSucceeded>>

----------------------------------------------------------------------------
(* Bounds of the model *)

MaxCalls == 1
MaxKeys == 3
ChainHeight == 1

MaxExecs == 2

(* Program constants *)

HDWalletCount == 10
DefaultConfirms == 1

----------------------------------------------------------------------------
(* Values *)

Undefined == "undefined"

\* JavaScript truthiness of an optional string.
Truthy(s) == s # Undefined /\ s # ""

\* COMMON_NETWORKS: name -> chain id.
COMMON_NETWORKS ==
    [mainnet |-> 1, sepolia |-> 11155111, polygon |-> 137, arbitrum |-> 42161,
     optimism |-> 10, base |-> 8453, avalanche |-> 43114, bsc |-> 56]

\* A NetworkConfig: its chain id, and whether constructing a JsonRpcProvider
\* from it throws.
Descriptor(name, id, bad) == [name |-> name, chainId |-> id, bad |-> bad]

\* Private keys.  BadKey is a malformed key (new ethers.Wallet throws).
\* A key is a pair: where it comes from, and which one it is.
RawKey(n) == <<"raw", n>>
BadKey == <<"malformed", 0>>
FreshKey(n) == <<"random", n>>
\* The key HDNodeWallet.fromMnemonic derives from a phrase at the path
\* `${hdPath}/${index}`.
HDKey(mnemonic, hdPath, index) == <<"hd", mnemonic, hdPath, index>>

\* Addresses: the account, and the letter case the string is written in.
\* wallet.address is always the checksummed rendering.
Forms == {"checksum", "lower", "upper"}
Address(acct, form) == [acct |-> acct, form |-> form]
NoAddress == Address(<<"none", 0>>, "undefined")
AddressOf(key) == Address(key, "checksum")
TruthyAddress(a) == a.form \in Forms

\* new ethers.Wallet(privateKey, provider)
NewWallet(key, provider) ==
    [address |-> AddressOf(key), privateKey |-> key, provider |-> provider]

\* wallet.connect(provider): a new wallet object with the same key.
Connect(w, provider) == [w EXCEPT !.provider = provider]

----------------------------------------------------------------------------
(* Map<string, Wallet> with JavaScript's insertion order *)

MapHas(m, key) == \E i \in 1..Len(m) : m[i].address = key

\* Map.get: the entries under the key (none, or one).
MapGet(m, key) == SelectSeq(m, LAMBDA w : w.address = key)

\* A faulty MapSet: the entry is added without looking for the key.
MapSetAppend(m, key, w) == Append(m, w)

\* A faulty MapSet: an existing key is deleted and re-inserted at the end.
MapSetMoveToEnd(m, key, w) ==
    Append(SelectSeq(m, LAMBDA x : x.address # key), w)

\* Map.set: an existing key keeps its position, a new key goes last.
MapSet(m, key, w) ==
    IF MapHas(m, key)
    THEN [i \in 1..Len(m) |-> IF m[i].address = key THEN w ELSE m[i]]
    ELSE Append(m, w)

\* Array.from(map.values())[0]
FirstValue(m) == IF Len(m) = 0 THEN <<>> ELSE <<m[1]>>

\* Array.from(map.keys())
MapKeys(m) == [i \in 1..Len(m) |-> m[i].address]

----------------------------------------------------------------------------
(* EVMClient construction *)

\* A faulty MergedNetworks: a built-in entry is not replaced by the user's.
MergedNetworksBuiltinsWin(cfg) ==
    [k \in DOMAIN cfg.networks \cup DOMAIN COMMON_NETWORKS |->
        IF k \in DOMAIN COMMON_NETWORKS
        THEN Descriptor(k, COMMON_NETWORKS[k], FALSE)
        ELSE cfg.networks[k]]

\* The merged table of initializeProviders: user entries win, built-ins fill in.
MergedNetworks(cfg) ==
    [k \in DOMAIN cfg.networks \cup DOMAIN COMMON_NETWORKS |->
        IF k \in DOMAIN cfg.networks
        THEN cfg.networks[k]
        ELSE Descriptor(k, COMMON_NETWORKS[k], FALSE)]

\* initializeProviders: a connection for every descriptor that constructs.
initializeProviders(cfg) ==
    {k \in DOMAIN MergedNetworks(cfg) : ~MergedNetworks(cfg)[k].bad}

\* The {name, chainId} each new JsonRpcProvider is given.
Connections(cfg) ==
    [k \in initializeProviders(cfg) |->
        [name |-> MergedNetworks(cfg)[k].name,
         chainId |-> MergedNetworks(cfg)[k].chainId]]

RECURSIVE AddPrivateKeysAbort(_, _, _)
\* A faulty AddPrivateKeys: one try around the whole loop, so the first
\* malformed key ends it.
AddPrivateKeysAbort(m, keys, provider) ==
    IF keys = <<>> \/ Head(keys) = BadKey THEN m
    ELSE AddPrivateKeysAbort(MapSet(m, AddressOf(Head(keys)),
                                    NewWallet(Head(keys), provider)),
                             Tail(keys), provider)

RECURSIVE AddPrivateKeys(_, _, _)
\* The forEach over config.privateKeys: a malformed key is caught and skipped.
AddPrivateKeys(m, keys, provider) ==
    IF keys = <<>> THEN m
    ELSE LET k == Head(keys)
             m1 == IF k = BadKey THEN m
                   ELSE MapSet(m, AddressOf(k), NewWallet(k, provider))
         IN AddPrivateKeys(m1, Tail(keys), provider)

\* this.config.hdPath || "m/44'/60'/0'/0"
DefaultHDPath == "m/44'/60'/0'/0"
HDPathOf(cfg) == IF Truthy(cfg.hdPath) THEN cfg.hdPath ELSE DefaultHDPath

\* this.config.accountIndex || 0 (the index is absent, <<>>, or given, <<n>>)
StartIndexOf(cfg) == IF cfg.accountIndex = <<>> THEN 0 ELSE cfg.accountIndex[1]

RECURSIVE AddHDWalletsFromZero(_, _, _, _, _, _)
\* A faulty AddHDWallets: the path is `${hdPath}/${i}`, the start index is
\* forgotten.
AddHDWalletsFromZero(m, mnemonic, hdPath, startIndex, i, provider) ==
    IF i >= HDWalletCount THEN m
    ELSE LET k == HDKey(mnemonic, hdPath, i)
         IN AddHDWalletsFromZero(MapSet(m, AddressOf(k), NewWallet(k, provider)),
                                 mnemonic, hdPath, startIndex, i + 1, provider)

RECURSIVE AddHDWallets(_, _, _, _, _, _)
\* The loop over i < 10 deriving `${hdPath}/${startIndex + i}`.
AddHDWallets(m, mnemonic, hdPath, startIndex, i, provider) ==
    IF i >= HDWalletCount THEN m
    ELSE LET k == HDKey(mnemonic, hdPath, startIndex + i)
         IN AddHDWallets(MapSet(m, AddressOf(k), NewWallet(k, provider)),
                         mnemonic, hdPath, startIndex, i + 1, provider)

\* Mnemonic.fromPhrase or derivePath throws, at i = 0: the try around the
\* whole loop catches it and no HD wallet is added.
HDThrows(cfg) == cfg.mnemonic = "invalid" \/ HDPathOf(cfg) = "invalid"

\* initializeWallets, given the connection getProvider() returned.
initializeWallets(cfg, provider) ==
    LET raw == AddPrivateKeys(<<>>, cfg.privateKeys, provider)
    IN IF Truthy(cfg.mnemonic) /\ ~HDThrows(cfg)
       THEN AddHDWallets(raw, cfg.mnemonic, HDPathOf(cfg), StartIndexOf(cfg), 0,
                         provider)
       ELSE raw

\* The cursor the constructor sets.
InitialNetwork(cfg) ==
    IF Truthy(cfg.defaultNetwork) THEN cfg.defaultNetwork ELSE "mainnet"

\* A faulty ConstructorThrows: the constructor does not look the cursor up.
ConstructorNeverThrows(cfg) == FALSE

\* The constructor throws when getProvider() finds no connection for the cursor.
ConstructorThrows(cfg) == InitialNetwork(cfg) \notin initializeProviders(cfg)

----------------------------------------------------------------------------
(* Errors, by the message the code throws *)

ErrNone == "none"
ErrProviderNotFound == "Provider not found for network"
ErrNetworkNotConfigured == "Network not configured"
ErrNoWallet == "No wallet available for sending transaction"
ErrInvalidKey == "invalid private key"
ErrInvalidValue == "invalid decimal value"
ErrRejected == "submission rejected by the node"
ErrWaitFailed == "confirmation wait failed"
ErrNetworkCall == "network call failed"
ErrNoWalletDeploy == "No wallet available for deployment"
ErrNotAFunction == "contract[method] is not a function"
ErrCallFailed == "contract call failed"

Outcome(op, error) == [op |-> op, error |-> error]

----------------------------------------------------------------------------
(* EVMClient: the synchronous operations *)

\* getProvider(network?) throws when the pool has no connection for the name.
getProviderThrows(network) ==
    (IF Truthy(network) THEN network ELSE currentNetwork) \notin providers

\* getProvider(): connections are identified by their network name.
getProvider(network) == IF Truthy(network) THEN network ELSE currentNetwork

\* A faulty Rebind: only the first wallet is connected to the new provider.
RebindFirstOnly(m, provider) ==
    [i \in 1..Len(m) |-> IF i = 1 THEN Connect(m[i], provider) ELSE m[i]]

RECURSIVE RebindFrom(_, _, _, _)
RebindFrom(m, entries, i, provider) ==
    IF i > Len(entries) THEN m
    ELSE RebindFrom(MapSet(m, entries[i].address, Connect(entries[i], provider)),
                    entries, i + 1, provider)

\* The loop of switchNetwork: every entry is set to wallet.connect(provider).
Rebind(m, provider) == RebindFrom(m, m, 1, provider)

\* A faulty switchNetwork: the cursor is written before the name is checked.
switchNetworkUnchecked(network) ==
    /\ client = "ready"
    /\ currentNetwork' = network
    /\ IF network \notin providers
       THEN /\ last' = Outcome("switchNetwork", ErrNetworkNotConfigured)
            /\ UNCHANGED wallets
       ELSE /\ last' = Outcome("switchNetwork", ErrNone)
            /\ wallets' = Rebind(wallets, network)
    /\ UNCHANGED <<evmConfig, tools, configTools, execs, initSucceeded, connections, ops, client, initPc, providers, calls, sent, chain>>

\* switchNetwork(network): no await, so it runs as one step.  getProvider()
\* is read after the cursor is written: it is the connection of `network`.
switchNetwork(network) ==
    /\ client = "ready"
    /\ IF network \notin providers
       THEN /\ last' = Outcome("switchNetwork", ErrNetworkNotConfigured)
            /\ UNCHANGED <<currentNetwork, wallets>>
       ELSE /\ currentNetwork' = network
            /\ last' = Outcome("switchNetwork", ErrNone)
            /\ wallets' = Rebind(wallets, network)
    /\ UNCHANGED <<evmConfig, tools, configTools, execs, initSucceeded, connections, ops, client, initPc, providers, calls, sent, chain>>

\* createWallet(): Wallet.createRandom() draws a key no wallet of the pool
\* has; the new wallet is connected to the current connection.
createWallet(key) ==
    /\ client = "ready"
    /\ ~MapHas(wallets, AddressOf(key))
    /\ IF getProviderThrows(Undefined)
       THEN /\ last' = Outcome("createWallet", ErrProviderNotFound)
            /\ UNCHANGED wallets
       ELSE LET w == Connect(NewWallet(key, Undefined), getProvider(Undefined))
            IN /\ wallets' = MapSet(wallets, w.address, w)
               /\ last' = Outcome("createWallet", ErrNone)
    /\ UNCHANGED <<evmConfig, tools, configTools, execs, initSucceeded, connections, ops, client, initPc, providers, currentNetwork, calls, sent, chain>>

\* importWallet(privateKey)
importWallet(privateKey) ==
    /\ client = "ready"
    /\ IF getProviderThrows(Undefined)
       THEN /\ last' = Outcome("importWallet", ErrProviderNotFound)
            /\ UNCHANGED wallets
       ELSE IF privateKey = BadKey
       THEN /\ last' = Outcome("importWallet", ErrInvalidKey)
            /\ UNCHANGED wallets
       ELSE LET w == NewWallet(privateKey, getProvider(Undefined))
            IN /\ wallets' = MapSet(wallets, w.address, w)
               /\ last' = Outcome("importWallet", ErrNone)
    /\ UNCHANGED <<evmConfig, tools, configTools, execs, initSucceeded, connections, ops, client, initPc, providers, currentNetwork, calls, sent, chain>>

----------------------------------------------------------------------------
(* EVMPlugin.init *)

\* The names of getFunctionDefinitions, in their order.
BuiltinTools ==
    <<"evm_get_balance", "evm_send_transaction", "evm_estimate_gas",
      "evm_get_block", "evm_get_transaction", "evm_get_logs", "evm_resolve_ens",
      "evm_create_wallet", "evm_import_wallet", "evm_list_wallets",
      "evm_switch_network", "evm_get_network", "evm_call_contract",
      "evm_send_contract_transaction", "evm_deploy_contract",
      "evm_get_gas_prices", "evm_sign_message", "evm_verify_message">>

\* A tool: its name and whose definition it is (the plugin's, or a caller's).
Tool(name, definition) == [name |-> name, definition |-> definition]

\* tools.has(name)
hasTool(m, name) == \E i \in 1..Len(m) : m[i].name = name

\* tools.set(tool.name, tool): an existing name keeps its position.
ToolsSet(m, tool) ==
    IF hasTool(m, tool.name)
    THEN [i \in 1..Len(m) |-> IF m[i].name = tool.name THEN tool ELSE m[i]]
    ELSE Append(m, tool)

\* tools.delete(name)
ToolsDelete(m, name) == SelectSeq(m, LAMBDA t : t.name # name)

\* Array.from(this.tools.values())
ToolValues(m) == m

RECURSIVE SetBuiltinsFrom(_, _)
SetBuiltinsFrom(m, i) ==
    IF i > Len(BuiltinTools) THEN m
    ELSE SetBuiltinsFrom(ToolsSet(m, Tool(BuiltinTools[i], "builtin")), i + 1)

\* initializeTools(): every function definition is set under its name.
initializeTools(m) == SetBuiltinsFrom(m, 1)

Execs == 1..MaxExecs

\* pc: "idle", "init" (awaiting this.init()), "dispatched" (the client
\* operation of the tool has been called), "raised".
IdleExec == [pc |-> "idle"]

\* init() up to its await: new EVMClient(evmConfig), then getNetwork() is
\* called.  A throwing constructor leaves this.client as it was and init()
\* rejects.
InitStarts ==
    IF ConstructorThrows(evmConfig)
    THEN /\ last' = Outcome("init", ErrProviderNotFound)
         /\ UNCHANGED <<client, initPc, providers, connections, wallets,
                        currentNetwork>>
    ELSE /\ client' = "ready"
         /\ providers' = initializeProviders(evmConfig)
         /\ connections' = Connections(evmConfig)
         /\ currentNetwork' = InitialNetwork(evmConfig)
         /\ wallets' = initializeWallets(evmConfig, InitialNetwork(evmConfig))
         /\ initPc' = "getNetwork"
         /\ UNCHANGED last

\* init() called on the plugin.
PluginInit ==
    /\ initPc = "idle"
    /\ InitStarts
    /\ UNCHANGED <<evmConfig, tools, configTools, execs, initSucceeded, ops,
                   calls, sent, chain>>

\* init() after its await: getNetwork() resolved, the tools are set again and
\* success is logged; or it rejected and init() rethrows.  An execution that
\* awaits this init() goes on to its dispatch, or rejects with it.
PluginInitResume(ok) ==
    /\ initPc = "getNetwork"
    /\ initPc' = "idle"
    /\ last' = Outcome("init", IF ok THEN ErrNone ELSE ErrNetworkCall)
    /\ tools' = IF ok THEN initializeTools(tools) ELSE tools
    /\ configTools' = IF ok THEN ToolValues(initializeTools(tools)) ELSE configTools
    /\ initSucceeded' = (initSucceeded \/ ok)
    /\ execs' = [e \in Execs |->
           IF execs[e].pc = "init"
           THEN [pc |-> IF ok THEN "dispatched" ELSE "raised"]
           ELSE execs[e]]
    /\ UNCHANGED <<evmConfig, connections, ops, client, providers, wallets,
                   currentNetwork, calls, sent, chain>>

\* execute of a built-in tool: if (!this.client) await this.init(); with a
\* client the operation is dispatched.
execute(e) ==
    /\ execs[e].pc = "idle"
    /\ IF client # "null"
       THEN /\ execs' = [execs EXCEPT ![e] = [pc |-> "dispatched"]]
            /\ UNCHANGED <<client, initPc, providers, connections, wallets,
                           currentNetwork, last>>
       ELSE /\ initPc = "idle"
            /\ InitStarts
            /\ execs' = [execs EXCEPT ![e] =
                   [pc |-> IF ConstructorThrows(evmConfig) THEN "raised" ELSE "init"]]
    /\ UNCHANGED <<evmConfig, tools, configTools, initSucceeded, ops, calls,
                   sent, chain>>

\* registerTool(tool)
registerTool(tool) ==
    /\ tools' = ToolsSet(tools, tool)
    /\ configTools' = ToolValues(ToolsSet(tools, tool))
    /\ UNCHANGED <<evmConfig, execs, initSucceeded, client, initPc, providers,
                   connections, wallets, currentNetwork, last, ops, calls,
                   sent, chain>>

\* removeTool(name)
removeTool(name) ==
    /\ tools' = ToolsDelete(tools, name)
    /\ configTools' = ToolValues(ToolsDelete(tools, name))
    /\ UNCHANGED <<evmConfig, execs, initSucceeded, client, initPc, providers,
                   connections, wallets, currentNetwork, last, ops, calls,
                   sent, chain>>

----------------------------------------------------------------------------
(* EVMClient.sendTransaction *)

Calls == 1..MaxCalls

\* ethers.parseEther on the strings the model uses (18 decimals); the wei
\* amount is written as its decimal string.
parseEther(value) ==
    IF value = "0.1" THEN "100000000000000000"
    ELSE IF value = "1" THEN "1000000000000000000"
    ELSE "0"

parseEtherThrows(value) == value \notin {"0.1", "1", "0"}

\* BigInt(string), written back as the decimal string of the number:
\* BigInt("") is 0n.
BigInt(str) ==
    IF str = "" THEN "0" ELSE str

NoFee ==
    [gasPrice |-> Undefined, maxFeePerGas |-> Undefined,
     maxPriorityFeePerGas |-> Undefined]

\* A faulty FeeFields: the legacy gas price is looked at first.
FeeFieldsLegacyFirst(request) ==
    IF Truthy(request.gasPrice)
    THEN [NoFee EXCEPT !.gasPrice = BigInt(request.gasPrice)]
    ELSE IF Truthy(request.maxFeePerGas) /\ Truthy(request.maxPriorityFeePerGas)
    THEN [NoFee EXCEPT !.maxFeePerGas = BigInt(request.maxFeePerGas),
                       !.maxPriorityFeePerGas = BigInt(request.maxPriorityFeePerGas)]
    ELSE NoFee

\* The fee fields set on tx; a field left unset is undefined.
FeeFields(request) ==
    IF Truthy(request.maxFeePerGas) /\ Truthy(request.maxPriorityFeePerGas)
    THEN [NoFee EXCEPT !.maxFeePerGas = BigInt(request.maxFeePerGas),
                       !.maxPriorityFeePerGas = BigInt(request.maxPriorityFeePerGas)]
    ELSE IF Truthy(request.gasPrice)
    THEN [NoFee EXCEPT !.gasPrice = BigInt(request.gasPrice)]
    ELSE NoFee

\* The ethers.TransactionRequest built from the request.
BuildTx(request) ==
    [value |-> IF Truthy(request.value) THEN parseEther(request.value) ELSE "0",
     fee |-> FeeFields(request)]

NoTx == [value |-> "0", fee |-> NoFee]

NoRequest ==
    [from |-> NoAddress, value |-> Undefined, gasPrice |-> Undefined,
     maxFeePerGas |-> Undefined, maxPriorityFeePerGas |-> Undefined]

IdleCall ==
    [pc |-> "idle", request |-> NoRequest, cursor |-> Undefined, wallet |-> <<>>,
     tx |-> NoTx, error |-> ErrNone, receipt |-> "none"]

\* A faulty ResolveWallet: an unknown address falls back to the first wallet.
ResolveWalletFallback(m, from) ==
    IF TruthyAddress(from) /\ MapHas(m, from) THEN MapGet(m, from) ELSE FirstValue(m)

\* request.from ? wallets.get(request.from) : Array.from(wallets.values())[0]
ResolveWallet(m, from) ==
    IF TruthyAddress(from) THEN MapGet(m, from) ELSE FirstValue(m)

Fail(c, request, error) ==
    calls' = [calls EXCEPT ![c] = [@ EXCEPT !.pc = "failed", !.request = request,
                                              !.error = error]]

\* sendTransaction up to its first await: the connection and the signer are
\* read, tx is built and handed to wallet.sendTransaction.
sendTransaction(c, request) ==
    /\ client = "ready"
    /\ calls[c].pc = "idle"
    /\ IF getProviderThrows(Undefined)
       THEN Fail(c, request, ErrProviderNotFound)
       ELSE IF ResolveWallet(wallets, request.from) = <<>>
       THEN Fail(c, request, ErrNoWallet)
       ELSE IF Truthy(request.value) /\ parseEtherThrows(request.value)
       THEN Fail(c, request, ErrInvalidValue)
       ELSE calls' = [calls EXCEPT ![c] =
                [@ EXCEPT !.pc = "sending",
                          !.request = request,
                          !.cursor = getProvider(Undefined),
                          !.wallet = ResolveWallet(wallets, request.from),
                          !.tx = BuildTx(request)]]
    /\ UNCHANGED <<evmConfig, tools, configTools, execs, initSucceeded, connections, ops, client, initPc, providers, wallets, currentNetwork,
                   last, sent, chain>>

Submission(c, accepted) ==
    [call |-> c, network |-> calls[c].wallet[1].provider,
     signer |-> calls[c].wallet[1].address, tx |-> calls[c].tx,
     accepted |-> accepted]

\* wallet.sendTransaction(tx) resolves: the node of the signer's connection
\* took the transaction, which is now pending.
SubmitAccepted(c) ==
    /\ calls[c].pc = "sending"
    /\ sent' = Append(sent, Submission(c, TRUE))
    /\ chain' = [chain EXCEPT ![c] = "pending"]
    /\ calls' = [calls EXCEPT ![c].pc = "waiting"]
    /\ UNCHANGED <<evmConfig, tools, configTools, execs, initSucceeded, connections, ops, client, initPc, providers, wallets, currentNetwork,
                   last>>

\* A faulty SubmitRejected: the rejected submission is made again.
SubmitRejectedRetry(c) ==
    /\ calls[c].pc = "sending"
    /\ Len(sent) < 2 * MaxCalls
    /\ sent' = Append(sent, Submission(c, FALSE))
    /\ UNCHANGED <<evmConfig, tools, configTools, execs, initSucceeded, connections, ops, client, initPc, providers, wallets, currentNetwork,
                   last, chain, calls>>

\* wallet.sendTransaction(tx) rejects (funds, nonce, gas, transport): the
\* error leaves sendTransaction.
SubmitRejected(c) ==
    /\ calls[c].pc = "sending"
    /\ sent' = Append(sent, Submission(c, FALSE))
    /\ calls' = [calls EXCEPT ![c].pc = "failed", ![c].error = ErrRejected]
    /\ UNCHANGED <<evmConfig, tools, configTools, execs, initSucceeded, connections, ops, client, initPc, providers, wallets, currentNetwork,
                   last, chain>>

\* The network includes a pending transaction in a block ...
Include(c) ==
    /\ chain[c] = "pending"
    /\ chain' = [chain EXCEPT ![c] = "included"]
    /\ UNCHANGED <<evmConfig, tools, configTools, execs, initSucceeded, connections, ops, client, initPc, providers, wallets, currentNetwork,
                   last, calls, sent>>

\* ... or includes it with a failed execution (receipt status 0).
Revert(c) ==
    /\ chain[c] = "pending"
    /\ chain' = [chain EXCEPT ![c] = "reverted"]
    /\ UNCHANGED <<evmConfig, tools, configTools, execs, initSucceeded, connections, ops, client, initPc, providers, wallets, currentNetwork,
                   last, calls, sent>>

\* txResponse.wait(confirms) resolves: with the receipt once the transaction
\* has that many confirmations; with confirms = 0, at once, with null while
\* the transaction is pending.
WaitResolves(c, confirms) ==
    /\ calls[c].pc = "waiting"
    /\ \/ /\ chain[c] = "included"
          /\ calls' = [calls EXCEPT ![c].pc = "returned", ![c].receipt = "receipt"]
       \/ /\ confirms = 0
          /\ chain[c] = "pending"
          /\ calls' = [calls EXCEPT ![c].pc = "returned", ![c].receipt = "null"]
    /\ UNCHANGED <<evmConfig, tools, configTools, execs, initSucceeded, connections, ops, client, initPc, providers, wallets, currentNetwork,
                   last, sent, chain>>

\* A faulty sendTransactionWait: the wait asks for no confirmation.
sendTransactionNoWait(c) == WaitResolves(c, 0)

\* await txResponse.wait(), then the result is returned.
sendTransactionWait(c) == WaitResolves(c, DefaultConfirms)

\* txResponse.wait() rejects (the execution reverted): the error leaves
\* sendTransaction.
WaitRejects(c) ==
    /\ calls[c].pc = "waiting"
    /\ chain[c] = "reverted"
    /\ calls' = [calls EXCEPT ![c].pc = "failed", ![c].error = ErrWaitFailed]
    /\ UNCHANGED <<evmConfig, tools, configTools, execs, initSucceeded, connections, ops, client, initPc, providers, wallets, currentNetwork,
                   last, sent, chain>>

----------------------------------------------------------------------------
(* EVMClient: contract calls and queries *)

\* What a call hands back: null, or an object with the fields that are set
\* (a field that is not set is undefined; result: null is the string "null").
NoResult ==
    [null |-> FALSE, result |-> Undefined, hash |-> Undefined,
     error |-> Undefined, receipt |-> Undefined, number |-> <<>>,
     network |-> <<>>, estimation |-> <<>>, info |-> <<>>]

Null == [NoResult EXCEPT !.null = TRUE]

NoOptions == [from |-> NoAddress, value |-> Undefined]

\* op: the method called; pc: "idle", "invoking" (awaiting the node's
\* answer), "waiting" (awaiting inclusion), "returned", "raised";
\* tx: what the network did with the transaction the call is about;
\* submitted: the submissions the call's signer made.
IdleOp ==
    [op |-> "none", pc |-> "idle", method |-> Undefined, options |-> NoOptions,
     blockTag |-> <<>>, provider |-> Undefined, gasLimit |-> <<>>, info |-> <<>>,
     wallet |-> <<>>, tx |-> "none", submitted |-> <<>>,
     result |-> NoResult, thrown |-> ErrNone]

\* The methods whose body is one try whose catch returns an error object.
CatchesAll == {"callContract", "sendContractTransaction", "deployContract"}
CatchesNothing == {}
Catches == {"callContract", "sendContractTransaction"}

\* The object a catch block returns.
ErrorResult(op, error) ==
    IF op = "callContract"
    THEN [NoResult EXCEPT !.result = "null", !.error = error]
    ELSE [NoResult EXCEPT !.hash = "", !.error = error]

\* An error thrown in a call: caught and returned, or it leaves the call.
Throw(call, error) ==
    IF call.op \in Catches
    THEN [call EXCEPT !.pc = "returned", !.result = ErrorResult(call.op, error)]
    ELSE [call EXCEPT !.pc = "raised", !.thrown = error]

Return(call, result) == [call EXCEPT !.pc = "returned", !.result = result]

Started(op, method, options) ==
    [IdleOp EXCEPT !.op = op, !.method = method, !.options = options]

\* callContract up to its await: the connection is read and contract[method]
\* is called, inside the try.
callContract(c, method) ==
    /\ client = "ready"
    /\ ops[c].pc = "idle"
    /\ LET call == Started("callContract", method, NoOptions)
       IN ops' = [ops EXCEPT ![c] =
               IF getProviderThrows(Undefined) THEN Throw(call, ErrProviderNotFound)
               ELSE IF method = "unknown" THEN Throw(call, ErrNotAFunction)
               ELSE [call EXCEPT !.pc = "invoking"]]
    /\ UNCHANGED <<evmConfig, tools, configTools, execs, initSucceeded, connections, client, initPc, providers, wallets, currentNetwork,
                   last, calls, sent, chain>>

\* sendContractTransaction up to its first await: signer, options, then
\* contract[method] is called, inside the try.
sendContractTransaction(c, method, options) ==
    /\ client = "ready"
    /\ ops[c].pc = "idle"
    /\ LET call == Started("sendContractTransaction", method, options)
           wallet == ResolveWallet(wallets, options.from)
       IN ops' = [ops EXCEPT ![c] =
               IF wallet = <<>> THEN Throw(call, ErrNoWallet)
               ELSE IF Truthy(options.value) /\ parseEtherThrows(options.value)
               THEN Throw(call, ErrInvalidValue)
               ELSE IF method = "unknown" THEN Throw(call, ErrNotAFunction)
               ELSE [call EXCEPT !.pc = "invoking", !.wallet = wallet]]
    /\ UNCHANGED <<evmConfig, tools, configTools, execs, initSucceeded, connections, client, initPc, providers, wallets, currentNetwork,
                   last, calls, sent, chain>>

\* deployContract up to its first await: signer, then contractFactory.deploy
\* is called; nothing is caught.
deployContract(c, options) ==
    /\ client = "ready"
    /\ ops[c].pc = "idle"
    /\ LET call == Started("deployContract", Undefined, options)
           wallet == ResolveWallet(wallets, options.from)
       IN ops' = [ops EXCEPT ![c] =
               IF wallet = <<>> THEN Throw(call, ErrNoWalletDeploy)
               ELSE [call EXCEPT !.pc = "invoking", !.wallet = wallet]]
    /\ UNCHANGED <<evmConfig, tools, configTools, execs, initSucceeded, connections, client, initPc, providers, wallets, currentNetwork,
                   last, calls, sent, chain>>

\* await contract[method](...) of callContract resolves with the value ...
CallResolves(c) ==
    /\ ops[c].op = "callContract"
    /\ ops[c].pc = "invoking"
    /\ ops' = [ops EXCEPT ![c] = Return(@, [NoResult EXCEPT !.result = "value"])]
    /\ UNCHANGED <<evmConfig, tools, configTools, execs, initSucceeded, connections, client, initPc, providers, wallets, currentNetwork,
                   last, calls, sent, chain>>

\* ... or rejects (bad arguments, revert, transport).
CallRejects(c) ==
    /\ ops[c].op = "callContract"
    /\ ops[c].pc = "invoking"
    /\ ops' = [ops EXCEPT ![c] = Throw(@, ErrCallFailed)]
    /\ UNCHANGED <<evmConfig, tools, configTools, execs, initSucceeded, connections, client, initPc, providers, wallets, currentNetwork,
                   last, calls, sent, chain>>

SignerSubmission(call, accepted) ==
    [network |-> call.wallet[1].provider, signer |-> call.wallet[1].address,
     accepted |-> accepted]

\* The signer's submission (contract[method](...) or contractFactory.deploy)
\* resolves: the transaction is pending, the call goes on to its wait.
OpSubmitAccepted(c) ==
    /\ ops[c].op \in {"sendContractTransaction", "deployContract"}
    /\ ops[c].pc = "invoking"
    /\ ops' = [ops EXCEPT ![c] =
            [@ EXCEPT !.pc = "waiting", !.tx = "pending",
                      !.submitted = Append(@, SignerSubmission(ops[c], TRUE))]]
    /\ UNCHANGED <<evmConfig, tools, configTools, execs, initSucceeded, connections, client, initPc, providers, wallets, currentNetwork,
                   last, calls, sent, chain>>

\* The signer's submission rejects.
OpSubmitRejected(c) ==
    /\ ops[c].op \in {"sendContractTransaction", "deployContract"}
    /\ ops[c].pc = "invoking"
    /\ ops' = [ops EXCEPT ![c] =
            Throw([@ EXCEPT !.submitted = Append(@, SignerSubmission(ops[c], FALSE))],
                  ErrRejected)]
    /\ UNCHANGED <<evmConfig, tools, configTools, execs, initSucceeded, connections, client, initPc, providers, wallets, currentNetwork,
                   last, calls, sent, chain>>

\* The network includes the pending transaction a call is about ...
OpInclude(c) ==
    /\ ops[c].tx = "pending"
    /\ ops' = [ops EXCEPT ![c].tx = "included"]
    /\ UNCHANGED <<evmConfig, tools, configTools, execs, initSucceeded, connections, client, initPc, providers, wallets, currentNetwork,
                   last, calls, sent, chain>>

\* ... or includes it with a failed execution.
OpRevert(c) ==
    /\ ops[c].tx = "pending"
    /\ ops' = [ops EXCEPT ![c].tx = "reverted"]
    /\ UNCHANGED <<evmConfig, tools, configTools, execs, initSucceeded, connections, client, initPc, providers, wallets, currentNetwork,
                   last, calls, sent, chain>>

\* What the call returns once its wait resolved with the receipt.
Confirmed(call) ==
    IF call.op = "deployContract"
    THEN [NoResult EXCEPT !.result = "address", !.hash = "0xhash"]
    ELSE [NoResult EXCEPT !.hash = "0xhash", !.receipt = "receipt"]

\* A faulty OpWaitResolves: the wait asks for no confirmation and resolves
\* while the transaction is pending.
OpWaitResolvesEarly(c) ==
    /\ ops[c].op \in {"sendContractTransaction", "deployContract", "getTransaction"}
    /\ ops[c].pc = "waiting"
    /\ ops[c].tx \in {"pending", "included"}
    /\ ops' = [ops EXCEPT ![c] = Return(@, Confirmed(@))]
    /\ UNCHANGED <<evmConfig, tools, configTools, execs, initSucceeded, connections, client, initPc, providers, wallets, currentNetwork,
                   last, calls, sent, chain>>

\* await tx.wait() / contract.waitForDeployment() resolves: the transaction
\* is included.
OpWaitResolves(c) ==
    /\ ops[c].op \in {"sendContractTransaction", "deployContract", "getTransaction"}
    /\ ops[c].pc = "waiting"
    /\ ops[c].tx = "included"
    /\ ops' = [ops EXCEPT ![c] = Return(@, Confirmed(@))]
    /\ UNCHANGED <<evmConfig, tools, configTools, execs, initSucceeded, connections, client, initPc, providers, wallets, currentNetwork,
                   last, calls, sent, chain>>

\* The wait rejects: the execution reverted.
OpWaitRejects(c) ==
    /\ ops[c].op \in {"sendContractTransaction", "deployContract", "getTransaction"}
    /\ ops[c].pc = "waiting"
    /\ ops[c].tx = "reverted"
    /\ ops' = [ops EXCEPT ![c] = Throw(@, ErrWaitFailed)]
    /\ UNCHANGED <<evmConfig, tools, configTools, execs, initSucceeded, connections, client, initPc, providers, wallets, currentNetwork,
                   last, calls, sent, chain>>

\* blockNumber || 'latest': the tag handed to provider.getBlock.  A block
\* number is absent, <<>>, or given, <<n>>.
BlockTag(blockNumber) ==
    IF blockNumber = <<>> \/ blockNumber[1] = 0
    THEN <<"latest">>
    ELSE <<"number", blockNumber[1]>>

\* The node's answer to a block query: the number of the block it has under
\* the tag, or none.  The node has the blocks 0..ChainHeight.
NodeBlock(tag) ==
    IF tag = <<"latest">> THEN <<ChainHeight>>
    ELSE IF tag[2] <= ChainHeight THEN <<tag[2]>>
    ELSE <<>>

\* getBlock up to its await.
getBlock(c, blockNumber) ==
    /\ client = "ready"
    /\ ops[c].pc = "idle"
    /\ LET call == [Started("getBlock", Undefined, NoOptions)
                        EXCEPT !.blockTag = BlockTag(blockNumber)]
       IN ops' = [ops EXCEPT ![c] =
               IF getProviderThrows(Undefined) THEN Throw(call, ErrProviderNotFound)
               ELSE [call EXCEPT !.pc = "invoking"]]
    /\ UNCHANGED <<evmConfig, tools, configTools, execs, initSucceeded, connections, client, initPc, providers, wallets, currentNetwork,
                   last, calls, sent, chain>>

\* provider.getBlock resolves: null for no block, else the block is returned.
GetBlockResolves(c) ==
    /\ ops[c].op = "getBlock"
    /\ ops[c].pc = "invoking"
    /\ LET block == NodeBlock(ops[c].blockTag)
       IN ops' = [ops EXCEPT ![c] =
               IF block = <<>> THEN Return(@, Null)
               ELSE Return(@, [NoResult EXCEPT !.hash = "0xblock", !.number = block])]
    /\ UNCHANGED <<evmConfig, tools, configTools, execs, initSucceeded, connections, client, initPc, providers, wallets, currentNetwork,
                   last, calls, sent, chain>>

\* getTransaction up to its first await.
getTransaction(c) ==
    /\ client = "ready"
    /\ ops[c].pc = "idle"
    /\ LET call == Started("getTransaction", Undefined, NoOptions)
       IN ops' = [ops EXCEPT ![c] =
               IF getProviderThrows(Undefined) THEN Throw(call, ErrProviderNotFound)
               ELSE [call EXCEPT !.pc = "invoking"]]
    /\ UNCHANGED <<evmConfig, tools, configTools, execs, initSucceeded, connections, client, initPc, providers, wallets, currentNetwork,
                   last, calls, sent, chain>>

\* A faulty GetTransactionResolves: tx is not tested, and tx.wait() on null
\* throws.
GetTransactionUnchecked(c, found) ==
    /\ ops[c].op = "getTransaction"
    /\ ops[c].pc = "invoking"
    /\ ops' = [ops EXCEPT ![c] =
            IF found = "none" THEN Throw(@, ErrNetworkCall)
            ELSE [@ EXCEPT !.pc = "waiting", !.tx = found]]
    /\ UNCHANGED <<evmConfig, tools, configTools, execs, initSucceeded, connections, client, initPc, providers, wallets, currentNetwork,
                   last, calls, sent, chain>>

\* provider.getTransaction resolves: with null when the node has no such
\* transaction (found = "none") and the call returns null; else with the
\* transaction, pending, included or reverted, and the call awaits tx.wait().
GetTransactionResolves(c, found) ==
    /\ ops[c].op = "getTransaction"
    /\ ops[c].pc = "invoking"
    /\ ops' = [ops EXCEPT ![c] =
            IF found = "none" THEN Return(@, Null)
            ELSE [@ EXCEPT !.pc = "waiting", !.tx = found]]
    /\ UNCHANGED <<evmConfig, tools, configTools, execs, initSucceeded, connections, client, initPc, providers, wallets, currentNetwork,
                   last, calls, sent, chain>>

\* waitForTransaction(hash) up to its await of provider.waitForTransaction
\* (hash, 1), called without a timeout; tx is the state of that transaction.
waitForTransaction(c, tx) ==
    /\ client = "ready"
    /\ ops[c].pc = "idle"
    /\ LET call == Started("waitForTransaction", Undefined, NoOptions)
       IN ops' = [ops EXCEPT ![c] =
               IF getProviderThrows(Undefined) THEN Throw(call, ErrProviderNotFound)
               ELSE [call EXCEPT !.pc = "waiting", !.tx = tx]]
    /\ UNCHANGED <<evmConfig, tools, configTools, execs, initSucceeded, connections, client, initPc, providers, wallets, currentNetwork,
                   last, calls, sent, chain>>

\* provider.waitForTransaction resolves with the receipt, whatever its status.
WaitForTransactionResolves(c) ==
    /\ ops[c].op = "waitForTransaction"
    /\ ops[c].pc = "waiting"
    /\ ops[c].tx \in {"included", "reverted"}
    /\ ops' = [ops EXCEPT ![c] = Return(@, [NoResult EXCEPT !.receipt = "receipt"])]
    /\ UNCHANGED <<evmConfig, tools, configTools, execs, initSucceeded, connections, client, initPc, providers, wallets, currentNetwork,
                   last, calls, sent, chain>>

\* The keys of COMMON_NETWORKS in the order they are written.
CommonOrder ==
    <<"mainnet", "sepolia", "polygon", "arbitrum", "optimism", "base",
      "avalanche", "bsc">>

\* The keys a user table adds, in the order the configurations write them.
UserOrder == <<"localhost", "fork">>

\* Object.values({...COMMON_NETWORKS, ...config.networks}): the built-in keys
\* in their order, each with the user's value if there is one, then the
\* user's other keys.
NetworkValues(cfg) ==
    LET keys == CommonOrder \o SelectSeq(UserOrder, LAMBDA k : k \in DOMAIN cfg.networks)
    IN [i \in 1..Len(keys) |-> MergedNetworks(cfg)[keys[i]]]

\* Array.find(n => n.chainId === chainId): the first one, or none.
FindByChainId(values, chainId) ==
    LET hits == SelectSeq(values, LAMBDA n : n.chainId = chainId)
    IN IF hits = <<>> THEN <<>> ELSE <<hits[1]>>

\* getNetwork up to its await: the current connection is read and asked for
\* its network.
getNetwork(c) ==
    /\ client = "ready"
    /\ ops[c].pc = "idle"
    /\ LET call == Started("getNetwork", Undefined, NoOptions)
       IN ops' = [ops EXCEPT ![c] =
               IF getProviderThrows(Undefined) THEN Throw(call, ErrProviderNotFound)
               ELSE [call EXCEPT !.pc = "invoking", !.provider = getProvider(Undefined)]]
    /\ UNCHANGED <<evmConfig, tools, configTools, execs, initSucceeded, connections, client, initPc, providers, wallets,
                   currentNetwork, last, calls, sent, chain>>

\* provider.getNetwork() resolves with the chain id of the connection's
\* network; the descriptor returned is the first of the table with that id.
GetNetworkResolves(c) ==
    /\ ops[c].op = "getNetwork"
    /\ ops[c].pc = "invoking"
    /\ LET chainId == connections[ops[c].provider].chainId
           networkConfig == FindByChainId(NetworkValues(evmConfig), chainId)
       IN ops' = [ops EXCEPT ![c] =
               IF networkConfig = <<>> THEN Return(@, Null)
               ELSE Return(@, [NoResult EXCEPT !.network = networkConfig])]
    /\ UNCHANGED <<evmConfig, tools, configTools, execs, initSucceeded, connections, client, initPc, providers, wallets,
                   currentNetwork, last, calls, sent, chain>>

\* The node's answer to a query does not arrive (transport): the await rejects.
QueryRejects(c) ==
    /\ ops[c].op \in {"getBlock", "getTransaction", "getNetwork"}
    /\ ops[c].pc = "invoking"
    /\ ops' = [ops EXCEPT ![c] = Throw(@, ErrNetworkCall)]
    /\ UNCHANGED <<evmConfig, tools, configTools, execs, initSucceeded, connections, client, initPc, providers, wallets, currentNetwork,
                   last, calls, sent, chain>>

\* ethers.formatEther: the decimal rendering of wei / 10^18, kept as the
\* amount and the number of decimals it is shifted by.
formatEther(wei) == [wei |-> wei, decimals |-> 18]

\* let estimatedCost = '0'
ZeroCost == [wei |-> 0, decimals |-> 0]

\* A bigint the node may leave null: <<>> is null, <<0>> is 0n.  0n is falsy.
TruthyBigInt(x) == x # <<>> /\ x[1] # 0

NoEstimation ==
    [gasLimit |-> <<>>, gasPrice |-> <<>>, maxFeePerGas |-> <<>>,
     maxPriorityFeePerGas |-> <<>>, estimatedCost |-> ZeroCost]

\* The GasEstimation built from the gas limit and the fee data; a number
\* stands for its decimal string.
GasEstimation(gasLimit, feeData) ==
    IF TruthyBigInt(feeData.maxFeePerGas) /\ TruthyBigInt(feeData.maxPriorityFeePerGas)
    THEN [NoEstimation EXCEPT
             !.gasLimit = <<gasLimit>>,
             !.maxFeePerGas = feeData.maxFeePerGas,
             !.maxPriorityFeePerGas = feeData.maxPriorityFeePerGas,
             !.estimatedCost = formatEther(gasLimit * feeData.maxFeePerGas[1])]
    ELSE IF TruthyBigInt(feeData.gasPrice)
    THEN [NoEstimation EXCEPT
             !.gasLimit = <<gasLimit>>,
             !.gasPrice = feeData.gasPrice,
             !.estimatedCost = formatEther(gasLimit * feeData.gasPrice[1])]
    ELSE [NoEstimation EXCEPT !.gasLimit = <<gasLimit>>]

\* estimateGas up to its first await: the connection is read, the value
\* parsed, and provider.estimateGas is asked.
estimateGas(c, value) ==
    /\ client = "ready"
    /\ ops[c].pc = "idle"
    /\ LET call == Started("estimateGas", Undefined, NoOptions)
       IN ops' = [ops EXCEPT ![c] =
               IF getProviderThrows(Undefined) THEN Throw(call, ErrProviderNotFound)
               ELSE IF Truthy(value) /\ parseEtherThrows(value)
               THEN Throw(call, ErrInvalidValue)
               ELSE [call EXCEPT !.pc = "invoking", !.provider = getProvider(Undefined)]]
    /\ UNCHANGED <<evmConfig, tools, configTools, execs, initSucceeded, connections, client, initPc, providers, wallets,
                   currentNetwork, last, calls, sent, chain>>

\* provider.estimateGas resolves; provider.getFeeData is asked.
EstimateGasResolves(c, gasLimit) ==
    /\ ops[c].op = "estimateGas"
    /\ ops[c].pc = "invoking"
    /\ ops' = [ops EXCEPT ![c].pc = "feeData", ![c].gasLimit = <<gasLimit>>]
    /\ UNCHANGED <<evmConfig, tools, configTools, execs, initSucceeded, connections, client, initPc, providers, wallets,
                   currentNetwork, last, calls, sent, chain>>

\* provider.getFeeData resolves; the estimation is returned.
FeeDataResolves(c, feeData) ==
    /\ ops[c].op = "estimateGas"
    /\ ops[c].pc = "feeData"
    /\ ops' = [ops EXCEPT ![c] =
           Return(@, [NoResult EXCEPT
               !.estimation = <<GasEstimation(ops[c].gasLimit[1], feeData)>>])]
    /\ UNCHANGED <<evmConfig, tools, configTools, execs, initSucceeded, connections, client, initPc, providers, wallets,
                   currentNetwork, last, calls, sent, chain>>

\* Either await of estimateGas rejects (the transaction would revert, or
\* transport); nothing is caught.
EstimateGasRejects(c) ==
    /\ ops[c].op = "estimateGas"
    /\ ops[c].pc \in {"invoking", "feeData"}
    /\ ops' = [ops EXCEPT ![c] = Throw(@, ErrNetworkCall)]
    /\ UNCHANGED <<evmConfig, tools, configTools, execs, initSucceeded, connections, client, initPc, providers, wallets,
                   currentNetwork, last, calls, sent, chain>>

NoInfo ==
    [name |-> Undefined, address |-> Undefined, resolver |-> Undefined,
     avatar |-> Undefined]

\* resolveENS up to its first await: provider.resolveName is asked.
resolveENS(c, name) ==
    /\ client = "ready"
    /\ ops[c].pc = "idle"
    /\ LET call == Started("resolveENS", Undefined, NoOptions)
       IN ops' = [ops EXCEPT ![c] =
               IF getProviderThrows(Undefined) THEN Throw(call, ErrProviderNotFound)
               ELSE [call EXCEPT !.pc = "resolveName",
                                 !.info = <<[NoInfo EXCEPT !.name = name]>>]]
    /\ UNCHANGED <<evmConfig, tools, configTools, execs, initSucceeded, connections, client, initPc, providers, wallets,
                   currentNetwork, last, calls, sent, chain>>

\* provider.resolveName resolves with an address or null (<<>>);
\* provider.getResolver is asked.  address || undefined.
ResolveNameResolves(c, address) ==
    /\ ops[c].op = "resolveENS"
    /\ ops[c].pc = "resolveName"
    /\ ops' = [ops EXCEPT
           ![c].pc = "getResolver",
           ![c].info = <<[@[1] EXCEPT !.address =
                             IF address = <<>> THEN Undefined ELSE address[1]]>>]
    /\ UNCHANGED <<evmConfig, tools, configTools, execs, initSucceeded, connections, client, initPc, providers, wallets,
                   currentNetwork, last, calls, sent, chain>>

\* provider.getResolver resolves: with no resolver info is returned, else
\* resolver.getAddress is asked.
GetResolverResolves(c, resolver) ==
    /\ ops[c].op = "resolveENS"
    /\ ops[c].pc = "getResolver"
    /\ ops' = [ops EXCEPT ![c] =
           IF resolver THEN [@ EXCEPT !.pc = "resolverAddress"]
           ELSE Return(@, [NoResult EXCEPT !.info = ops[c].info])]
    /\ UNCHANGED <<evmConfig, tools, configTools, execs, initSucceeded, connections, client, initPc, providers, wallets,
                   currentNetwork, last, calls, sent, chain>>

\* resolver.getAddress resolves with an address or null; resolver.getAvatar
\* is asked.
ResolverAddressResolves(c, address) ==
    /\ ops[c].op = "resolveENS"
    /\ ops[c].pc = "resolverAddress"
    /\ ops' = [ops EXCEPT
           ![c].pc = "getAvatar",
           ![c].info = <<[@[1] EXCEPT !.resolver =
                             IF address = <<>> THEN "null" ELSE address[1]]>>]
    /\ UNCHANGED <<evmConfig, tools, configTools, execs, initSucceeded, connections, client, initPc, providers, wallets,
                   currentNetwork, last, calls, sent, chain>>

\* resolver.getAvatar resolves with an avatar or null; info is returned.
AvatarResolves(c, avatar) ==
    /\ ops[c].op = "resolveENS"
    /\ ops[c].pc = "getAvatar"
    /\ LET info == IF avatar = <<>> THEN ops[c].info[1]
                   ELSE [ops[c].info[1] EXCEPT !.avatar = avatar[1]]
       IN ops' = [ops EXCEPT ![c] = Return(@, [NoResult EXCEPT !.info = <<info>>])]
    /\ UNCHANGED <<evmConfig, tools, configTools, execs, initSucceeded, connections, client, initPc, providers, wallets,
                   currentNetwork, last, calls, sent, chain>>

\* resolver.getAvatar rejects: caught, info is returned without an avatar.
AvatarRejects(c) ==
    /\ ops[c].op = "resolveENS"
    /\ ops[c].pc = "getAvatar"
    /\ ops' = [ops EXCEPT ![c] = Return(@, [NoResult EXCEPT !.info = ops[c].info])]
    /\ UNCHANGED <<evmConfig, tools, configTools, execs, initSucceeded, connections, client, initPc, providers, wallets,
                   currentNetwork, last, calls, sent, chain>>

\* provider.resolveName, provider.getResolver or resolver.getAddress rejects:
\* none of them is in a try.
ResolveENSRejects(c) ==
    /\ ops[c].op = "resolveENS"
    /\ ops[c].pc \in {"resolveName", "getResolver", "resolverAddress"}
    /\ ops' = [ops EXCEPT ![c] = Throw(@, ErrNetworkCall)]
    /\ UNCHANGED <<evmConfig, tools, configTools, execs, initSucceeded, connections, client, initPc, providers, wallets,
                   currentNetwork, last, calls, sent, chain>>

----------------------------------------------------------------------------
(* Configurations and requests the model draws from *)

LocalNetworks(bad) == [localhost |-> Descriptor("localhost", 31337, bad)]

Config(defaultNetwork, networks, privateKeys, mnemonic) ==
    [defaultNetwork |-> defaultNetwork, networks |-> networks,
     privateKeys |-> privateKeys, mnemonic |-> mnemonic, hdPath |-> Undefined,
     accountIndex |-> <<>>]

\* The configurations the model starts from.  The last two make the
\* constructor throw (no connection for the default network).
Configs ==
    {Config(Undefined, LocalNetworks(TRUE), <<>>, Undefined),
     Config("localhost", LocalNetworks(FALSE), <<RawKey(2), BadKey, RawKey(1)>>, Undefined),
     Config("polygon", LocalNetworks(FALSE), <<RawKey(1)>>, "valid"),
     Config(Undefined, LocalNetworks(FALSE), <<BadKey>>, "valid"),
     Config("localhost", LocalNetworks(TRUE), <<RawKey(1)>>, "invalid")}

\* The names switchNetwork is called with: registered ones, and one that is not.
SwitchTargets == {"polygon", "localhost", "ghost"}

ImportKeys == {RawKey(1), RawKey(3), BadKey}

\* The keys Wallet.createRandom() draws.
FreshKeys == {FreshKey(1)}

\* The from addresses of requests: none, held and unknown accounts, and the
\* three letter cases of an address.
FromAddresses ==
    {NoAddress, Address(RawKey(9), "checksum")}
        \cup {Address(RawKey(1), f) : f \in Forms}
        \cup {Address(RawKey(2), "checksum")}

Request(from, value, gasPrice, maxFee, maxPriority) ==
    [from |-> from, value |-> value, gasPrice |-> gasPrice,
     maxFeePerGas |-> maxFee, maxPriorityFeePerGas |-> maxPriority]

Requests ==
    {Request(a, Undefined, Undefined, Undefined, Undefined) : a \in FromAddresses}

----------------------------------------------------------------------------
(* The specification: a plugin, its client, and concurrent sendTransaction calls *)

Init ==
    /\ evmConfig \in Configs
    /\ client = "null"
    /\ initPc = "idle"
    /\ providers = {}
    /\ connections = <<>>
    /\ wallets = <<>>
    /\ currentNetwork = Undefined
    /\ last = Outcome("none", ErrNone)
    /\ calls = [c \in Calls |-> IdleCall]
    /\ sent = <<>>
    /\ chain = [c \in Calls |-> "none"]
    /\ ops = [c \in Calls |-> IdleOp]
    /\ tools = initializeTools(<<>>)
    /\ configTools = ToolValues(tools)
    /\ execs = [e \in Execs |-> IdleExec]
    /\ initSucceeded = FALSE

Next ==
    \/ PluginInit
    \/ \E ok \in BOOLEAN : PluginInitResume(ok)
    \/ \E n \in SwitchTargets : switchNetwork(n)
    \/ \E k \in FreshKeys : createWallet(k)
    \/ \E k \in ImportKeys : importWallet(k)
    \* one sendTransaction call in flight beside the plugin's operations
    \/ \E r \in Requests : sendTransaction(1, r)
    \/ SubmitAccepted(1)
    \/ SubmitRejected(1)
    \/ Include(1)
    \/ Revert(1)
    \/ sendTransactionWait(1)
    \/ WaitRejects(1)

Spec == Init /\ [][Next]_vars

----------------------------------------------------------------------------
(* The plugin's tools: registry, initialisation and executions *)

\* Tools a caller registers: one under a built-in name, one under its own.
RegisteredTools ==
    {Tool("evm_get_balance", "custom"), Tool("custom_tool", "custom")}

RemovedNames == {"evm_get_balance", "custom_tool"}

NextPlugin ==
    \/ PluginInit
    \/ \E ok \in BOOLEAN : PluginInitResume(ok)
    \/ \E e \in Execs : execute(e)
    \/ \E t \in RegisteredTools : registerTool(t)
    \/ \E n \in RemovedNames : removeTool(n)

SpecPlugin == Init /\ [][NextPlugin]_vars

----------------------------------------------------------------------------
(* Concurrent sendTransaction calls on a constructed client *)

SendConfigs ==
    {Config(Undefined, LocalNetworks(FALSE), <<RawKey(1), RawKey(2)>>, Undefined),
     Config("localhost", LocalNetworks(FALSE), <<>>, Undefined)}

\* The state new EVMClient(cfg) leaves.
Constructed(cfg) ==
    /\ ~ConstructorThrows(cfg)
    /\ evmConfig = cfg
    /\ client = "ready"
    /\ initPc = "idle"
    /\ providers = initializeProviders(cfg)
    /\ connections = Connections(cfg)
    /\ currentNetwork = InitialNetwork(cfg)
    /\ wallets = initializeWallets(cfg, InitialNetwork(cfg))
    /\ last = Outcome("none", ErrNone)
    /\ calls = [c \in Calls |-> IdleCall]
    /\ sent = <<>>
    /\ chain = [c \in Calls |-> "none"]
    /\ ops = [c \in Calls |-> IdleOp]
    /\ tools = initializeTools(<<>>)
    /\ configTools = ToolValues(tools)
    /\ execs = [e \in Execs |-> IdleExec]
    /\ initSucceeded = FALSE

InitSend == \E cfg \in SendConfigs : Constructed(cfg)

NextSend ==
    \/ \E n \in SwitchTargets : switchNetwork(n)
    \/ \E k \in ImportKeys : importWallet(k)
    \/ \E c \in Calls, r \in Requests : sendTransaction(c, r)
    \/ \E c \in Calls : SubmitAccepted(c)
    \/ \E c \in Calls : SubmitRejected(c)
    \/ \E c \in Calls : Include(c)
    \/ \E c \in Calls : Revert(c)
    \/ \E c \in Calls : sendTransactionWait(c)
    \/ \E c \in Calls : WaitRejects(c)

SpecSend == InitSend /\ [][NextSend]_vars

----------------------------------------------------------------------------
(* One sendTransaction call over every combination of fee fields *)

FeeConfig == Config(Undefined, LocalNetworks(FALSE), <<RawKey(1)>>, Undefined)

\* An optional decimal string: absent, empty, zero, or a positive number.
FeeValues == {Undefined, "", "0", "7"}

FeeRequests ==
    {Request(NoAddress, v, g, mf, mp) :
        v \in {Undefined, "0.1", "abc"}, g \in FeeValues,
        mf \in FeeValues, mp \in FeeValues}

InitFee == Constructed(FeeConfig)

NextFee ==
    \/ \E r \in FeeRequests : sendTransaction(1, r)
    \/ SubmitAccepted(1)
    \/ SubmitRejected(1)
    \/ Include(1)
    \/ Revert(1)
    \/ sendTransactionWait(1)
    \/ WaitRejects(1)

SpecFee == InitFee /\ [][NextFee]_vars

----------------------------------------------------------------------------
(* Contract calls and queries on a constructed client *)

Methods == {"known", "unknown"}

\* options of a contract transaction or a deployment: the signer (default,
\* unknown, held) and the value (absent, a decimal, not a decimal).
OptionsSet ==
    {[from |-> a, value |-> v] :
        a \in {NoAddress, Address(RawKey(9), "checksum"), Address(RawKey(2), "checksum")},
        v \in {Undefined, "0.1", "abc"}}

DeployOptions == {o \in OptionsSet : o.value = Undefined}

\* Block numbers asked for: none, the blocks of the node, and one beyond.
BlockNumbers == {<<>>} \cup {<<n>> : n \in 0..(ChainHeight + 1)}

\* A user table that points polygon at another chain and adds a fork of
\* mainnet under its own name, with mainnet's chain id.
ForkNetworks ==
    [localhost |-> Descriptor("localhost", 31337, FALSE),
     polygon |-> Descriptor("amoy", 80002, FALSE),
     fork |-> Descriptor("fork", 1, FALSE)]

OpsConfigs ==
    SendConfigs \cup {Config(Undefined, ForkNetworks, <<RawKey(1)>>, Undefined)}

InitOps == \E cfg \in OpsConfigs : Constructed(cfg)

NextOps ==
    \/ \E n \in {"polygon", "fork"} : switchNetwork(n)
    \/ importWallet(RawKey(2))
    \/ \E c \in Calls, m \in Methods : callContract(c, m)
    \/ \E c \in Calls, m \in Methods, o \in OptionsSet :
          sendContractTransaction(c, m, o)
    \/ \E c \in Calls, o \in DeployOptions : deployContract(c, o)
    \/ \E c \in Calls, n \in BlockNumbers : getBlock(c, n)
    \/ \E c \in Calls : getTransaction(c)
    \/ \E c \in Calls : getNetwork(c)
    \/ \E c \in Calls : GetNetworkResolves(c)
    \/ \E c \in Calls : waitForTransaction(c, "pending")
    \/ \E c \in Calls : CallResolves(c)
    \/ \E c \in Calls : CallRejects(c)
    \/ \E c \in Calls : OpSubmitAccepted(c)
    \/ \E c \in Calls : OpSubmitRejected(c)
    \/ \E c \in Calls : OpInclude(c)
    \/ \E c \in Calls : OpRevert(c)
    \/ \E c \in Calls : OpWaitResolves(c)
    \/ \E c \in Calls : OpWaitRejects(c)
    \/ \E c \in Calls : GetBlockResolves(c)
    \/ \E c \in Calls, f \in {"none", "pending", "included", "reverted"} :
          GetTransactionResolves(c, f)
    \/ \E c \in Calls : WaitForTransactionResolves(c)
    \/ \E c \in Calls : QueryRejects(c)

SpecOps == InitOps /\ [][NextOps]_vars

----------------------------------------------------------------------------
(* Gas estimation and name resolution on a constructed client *)

\* The gas limit the node estimates.
GasLimits == {21000}

\* What the node gives for each fee: null, 0n, or a price.
FeeDataSet ==
    {[gasPrice |-> g, maxFeePerGas |-> m, maxPriorityFeePerGas |-> p] :
        g \in {<<>>, <<0>>, <<5>>}, m \in {<<>>, <<0>>, <<7>>},
        p \in {<<>>, <<0>>, <<2>>}}

\* What a name lookup gives: null or an address.
Lookups == {<<>>, <<"0xaddress">>}

NextQuery ==
    \/ switchNetwork("polygon")
    \/ \E c \in Calls, v \in {Undefined, "0.1", "abc"} : estimateGas(c, v)
    \/ \E c \in Calls, g \in GasLimits : EstimateGasResolves(c, g)
    \/ \E c \in Calls, f \in FeeDataSet : FeeDataResolves(c, f)
    \/ \E c \in Calls : EstimateGasRejects(c)
    \/ \E c \in Calls : resolveENS(c, "name.eth")
    \/ \E c \in Calls, a \in Lookups : ResolveNameResolves(c, a)
    \/ \E c \in Calls, r \in BOOLEAN : GetResolverResolves(c, r)
    \/ \E c \in Calls, a \in Lookups : ResolverAddressResolves(c, a)
    \/ \E c \in Calls, a \in {<<>>, <<"avatar">>} : AvatarResolves(c, a)
    \/ \E c \in Calls : AvatarRejects(c)
    \/ \E c \in Calls : ResolveENSRejects(c)

SpecQuery == InitOps /\ [][NextQuery]_vars

----------------------------------------------------------------------------
(* Every call that waits for inclusion, with the scheduling the runtime gives *)

NextLive ==
    \/ NextOps
    \/ \E c \in Calls :
          sendTransaction(c, Request(NoAddress, Undefined, Undefined, Undefined, Undefined))
    \/ \E c \in Calls : SubmitAccepted(c)
    \/ \E c \in Calls : SubmitRejected(c)
    \/ \E c \in Calls : Include(c)
    \/ \E c \in Calls : Revert(c)
    \/ \E c \in Calls : sendTransactionWait(c)
    \/ \E c \in Calls : WaitRejects(c)

\* A node answers every request made to it, and the event loop resumes every
\* call whose awaited promise has settled.  Nothing makes the network
\* include a pending transaction.
Fairness ==
    \A c \in Calls :
        /\ WF_vars(SubmitAccepted(c) \/ SubmitRejected(c))
        /\ WF_vars(sendTransactionWait(c))
        /\ WF_vars(WaitRejects(c))
        /\ WF_vars(CallResolves(c) \/ CallRejects(c))
        /\ WF_vars(OpSubmitAccepted(c) \/ OpSubmitRejected(c))
        /\ WF_vars(OpWaitResolves(c))
        /\ WF_vars(OpWaitRejects(c))
        /\ WF_vars(GetBlockResolves(c) \/ QueryRejects(c) \/ GetNetworkResolves(c)
                     \/ \E f \in {"none", "pending", "included", "reverted"} :
                           GetTransactionResolves(c, f))
        /\ WF_vars(WaitForTransactionResolves(c))

SpecLive == InitOps /\ [][NextLive]_vars /\ Fairness

----------------------------------------------------------------------------
(* Construction of the client over the configurations *)

\* The raw keys a configuration lists: well-formed ones, a malformed one, and
\* the key of the mnemonic's first default account.
ConfigKeys ==
    {RawKey(1), RawKey(2), BadKey, HDKey("valid", DefaultHDPath, 0)}

KeyLists == UNION {[1..n -> ConfigKeys] : n \in 0..MaxKeys}

\* User tables: localhost alone (constructing or not), and localhost with an
\* override of the built-in polygon whose connection does not construct.
NetworkTables ==
    {LocalNetworks(FALSE), LocalNetworks(TRUE), ForkNetworks,
     [localhost |-> Descriptor("localhost", 31337, FALSE),
      polygon |-> Descriptor("polygon", 137, TRUE)]}

\* hdPath and accountIndex as configured together.
HDSettings ==
    {<<Undefined, <<>>>>, <<Undefined, <<0>>>>, <<"m/44'/60'/1'/0", <<3>>>>,
     <<"invalid", <<>>>>}

\* Every default network over every table, and every key list with every
\* mnemonic and HD setting.
ConstructConfigs ==
    {Config(d, n, k, m) :
        d \in {Undefined, "localhost", "polygon"}, n \in NetworkTables,
        k \in {<<>>, <<BadKey, RawKey(1)>>}, m \in {Undefined, "valid"}}
    \cup
    {[Config(Undefined, LocalNetworks(FALSE), k, m)
         EXCEPT !.hdPath = h[1], !.accountIndex = h[2]] :
        k \in KeyLists, m \in {Undefined, "valid", "invalid"}, h \in HDSettings}

InitConstruct ==
    /\ evmConfig \in ConstructConfigs
    /\ client = "null"
    /\ initPc = "idle"
    /\ providers = {}
    /\ connections = <<>>
    /\ wallets = <<>>
    /\ currentNetwork = Undefined
    /\ last = Outcome("none", ErrNone)
    /\ calls = [c \in Calls |-> IdleCall]
    /\ sent = <<>>
    /\ chain = [c \in Calls |-> "none"]
    /\ ops = [c \in Calls |-> IdleOp]
    /\ tools = initializeTools(<<>>)
    /\ configTools = ToolValues(tools)
    /\ execs = [e \in Execs |-> IdleExec]
    /\ initSucceeded = FALSE

NextConstruct ==
    \/ PluginInit
    \/ \E ok \in BOOLEAN : PluginInitResume(ok)

SpecConstruct == InitConstruct /\ [][NextConstruct]_vars

----------------------------------------------------------------------------
(* Claims *)

\* C1: once a client is constructed, the current-network cursor names a
\* network that has a connection in the pool, whatever operations ran.
CursorInPool == client = "ready" => currentNetwork \in providers

\* A constructed client whose cursor was moved by a switch, after a refused
\* switch and a failed send.
CursorInPoolWitness ==
    /\ client = "ready"
    /\ currentNetwork = "polygon"
    /\ currentNetwork # InitialNetwork(evmConfig)
    /\ last = Outcome("switchNetwork", ErrNetworkNotConfigured)
    /\ calls[1].pc = "failed"

\* C2: switchNetwork with a name that has no connection fails with "Network
\* not configured" and changes neither the cursor nor any wallet's binding.
SwitchToAbsentFails ==
    [][\A n \in SwitchTargets :
          (n \notin providers /\ switchNetwork(n))
              => /\ last' = Outcome("switchNetwork", ErrNetworkNotConfigured)
                 /\ currentNetwork' = currentNetwork
                 /\ wallets' = wallets]_vars

\* A refused switch on a client that holds wallets.
SwitchToAbsentWitness ==
    /\ client = "ready"
    /\ last = Outcome("switchNetwork", ErrNetworkNotConfigured)
    /\ Len(wallets) >= 2

\* C3: every wallet of the pool is bound to the connection the cursor names.
AllBoundToCurrent ==
    client = "ready" =>
        \A i \in 1..Len(wallets) : wallets[i].provider = currentNetwork

\* After a successful switch away from the initial network, with configured,
\* created and imported wallets in the pool.
AllBoundWitness ==
    /\ client = "ready"
    /\ last = Outcome("switchNetwork", ErrNone)
    /\ currentNetwork # InitialNetwork(evmConfig)
    /\ \E i \in 1..Len(wallets) : wallets[i].privateKey = RawKey(2)
    /\ \E i \in 1..Len(wallets) : wallets[i].privateKey = RawKey(3)
    /\ \E i \in 1..Len(wallets) : wallets[i].privateKey \in FreshKeys

Present(v) == v # Undefined /\ v # ""

\* C5: a submitted transaction carries the fee pair and no gasPrice exactly
\* when both pair fields are present in the request, gasPrice alone exactly
\* when the pair is not complete and gasPrice is present, and no fee field
\* otherwise; gasPrice never travels with a pair field.
FeeSelection ==
    \A i \in 1..Len(sent) :
        LET r == calls[sent[i].call].request
            f == sent[i].tx.fee
            pair == Present(r.maxFeePerGas) /\ Present(r.maxPriorityFeePerGas)
        IN /\ pair <=> (/\ f.maxFeePerGas # Undefined
                        /\ f.maxPriorityFeePerGas # Undefined
                        /\ f.gasPrice = Undefined)
           /\ (~pair /\ Present(r.gasPrice))
                 <=> (/\ f.gasPrice # Undefined
                      /\ f.maxFeePerGas = Undefined
                      /\ f.maxPriorityFeePerGas = Undefined)
           /\ (~pair /\ ~Present(r.gasPrice)) <=> f = NoFee
           /\ ~(f.gasPrice # Undefined /\ f.maxFeePerGas # Undefined)
           /\ ~(f.gasPrice # Undefined /\ f.maxPriorityFeePerGas # Undefined)

\* A submission whose request gave gasPrice and both pair fields.
FeeSelectionWitness ==
    \E i \in 1..Len(sent) :
        /\ sent[i].accepted
        /\ calls[sent[i].call].request.gasPrice = "7"
        /\ calls[sent[i].call].request.maxFeePerGas = "7"
        /\ calls[sent[i].call].request.maxPriorityFeePerGas = "0"
        /\ sent[i].tx.fee.gasPrice = Undefined

\* The pool holds a wallet of the account (whatever the case of the address).
HoldsAccount(m, acct) == \E i \in 1..Len(m) : m[i].address.acct = acct

\* C6: a send whose from names an account the pool does not hold, or that
\* finds the pool empty, fails with "No wallet available", resolves no other
\* wallet and submits nothing, then or later.
UnknownSignerFails ==
    /\ [](\A c \in Calls :
            calls[c].error = ErrNoWallet =>
                /\ calls[c].pc = "failed"
                /\ calls[c].wallet = <<>>
                /\ \A i \in 1..Len(sent) : sent[i].call # c)
    /\ [][\A c \in Calls, r \in Requests :
            (/\ sendTransaction(c, r)
             /\ \/ wallets = <<>>
                \/ TruthyAddress(r.from) /\ ~HoldsAccount(wallets, r.from.acct))
                => /\ calls'[c].pc = "failed"
                   /\ calls'[c].error = ErrNoWallet
                   /\ sent' = sent]_vars

\* A send from an unknown account that failed although the pool held wallets.
UnknownSignerWitness ==
    \E c \in Calls :
        /\ calls[c].pc = "failed"
        /\ calls[c].error = ErrNoWallet
        /\ calls[c].request.from = Address(RawKey(9), "checksum")
        /\ Len(wallets) >= 2

\* The wallet a signing operation uses when no address is given.
DefaultWallet == ResolveWallet(wallets, NoAddress)

RECURSIVE FirstGoodKey(_)
\* The first well-formed key of a list (BadKey when there is none).
FirstGoodKey(keys) ==
    IF keys = <<>> THEN BadKey
    ELSE IF Head(keys) # BadKey THEN Head(keys)
    ELSE FirstGoodKey(Tail(keys))

\* The identity a configuration inserts first: its first well-formed raw
\* key, else its first HD identity, else none (BadKey).
FirstConfigured(cfg) ==
    IF FirstGoodKey(cfg.privateKeys) # BadKey THEN FirstGoodKey(cfg.privateKeys)
    ELSE IF cfg.mnemonic = "valid" /\ ~HDThrows(cfg)
    THEN HDKey(cfg.mnemonic, HDPathOf(cfg), StartIndexOf(cfg))
    ELSE BadKey

\* C7: with no address given the signer is the earliest-inserted wallet: the
\* first one the configuration yields, else the first one created or
\* imported; and no switchNetwork, createWallet or importWallet (of a new or
\* of a held key) changes which wallet that is.
DefaultIsEarliest ==
    /\ []((client = "ready" /\ FirstConfigured(evmConfig) # BadKey) =>
            /\ DefaultWallet # <<>>
            /\ DefaultWallet[1].address = AddressOf(FirstConfigured(evmConfig)))
    /\ [][(/\ client = "ready"
           /\ wallets # <<>>
           /\ ~(initPc = "idle" /\ initPc' = "getNetwork"))
              => /\ DefaultWallet' # <<>>
                 /\ DefaultWallet'[1].address = DefaultWallet[1].address]_vars

\* The first wallet of a pool of raw-key and HD wallets was imported again
\* after a switch, and is still the default.
DefaultIsEarliestWitness ==
    /\ client = "ready"
    /\ last = Outcome("importWallet", ErrNone)
    /\ Len(wallets) = 1 + HDWalletCount
    /\ currentNetwork # InitialNetwork(evmConfig)
    /\ DefaultWallet[1].privateKey = RawKey(1)

\* C8: a send whose from is any letter-case rendering of the address of a
\* wallet the pool holds resolves that wallet.
ResolveAnyCase ==
    [][\A c \in Calls, r \in Requests :
          (/\ sendTransaction(c, r)
           /\ TruthyAddress(r.from)
           /\ HoldsAccount(wallets, r.from.acct))
              => /\ calls'[c].wallet # <<>>
                 /\ calls'[c].wallet[1].address.acct = r.from.acct]_vars

\* The submissions made for a call.
SubmissionsOf(c) == {i \in 1..Len(sent) : sent[i].call = c}

\* C9: sendTransaction returns a result only for a transaction that was
\* included; the signer is resolved before the submission, the submission
\* is accepted before any inclusion, and the inclusion precedes the return.
ReturnsAfterInclusion ==
    \A c \in Calls :
        /\ SubmissionsOf(c) # {} => calls[c].wallet # <<>>
        /\ chain[c] # "none" => \E i \in SubmissionsOf(c) : sent[i].accepted
        /\ calls[c].pc = "returned" =>
              /\ chain[c] = "included"
              /\ calls[c].receipt = "receipt"

\* A call that returned its result after a switch moved the cursor.
ReturnsAfterInclusionWitness ==
    \E c \in Calls :
        /\ calls[c].pc = "returned"
        /\ calls[c].cursor # currentNetwork

\* C10: a call makes at most one submission; a rejected submission and a
\* failed confirmation wait end the call with that failure.
AtMostOneSubmission ==
    \A c \in Calls :
        /\ Cardinality(SubmissionsOf(c)) <= 1
        /\ (\E i \in SubmissionsOf(c) : ~sent[i].accepted) =>
              calls[c].pc = "failed" /\ calls[c].error = ErrRejected
        /\ calls[c].error = ErrWaitFailed =>
              calls[c].pc = "failed" /\ chain[c] = "reverted"

\* A call that failed on a rejected submission, having submitted once.
AtMostOneSubmissionWitness ==
    \E c \in Calls :
        /\ calls[c].pc = "failed"
        /\ calls[c].error = ErrRejected
        /\ Cardinality(SubmissionsOf(c)) = 1

\* The descriptor whose connection does not construct, by name.
FailsToConnect(cfg, n) == MergedNetworks(cfg)[n].bad

\* C12: when the connection of some registered network fails to construct,
\* construction of the client still completes, with that network absent from
\* the pool and every other registered network present.
ConstructionSurvivesBadNetwork ==
    [][(/\ PluginInit
        /\ \E n \in DOMAIN MergedNetworks(evmConfig) : FailsToConnect(evmConfig, n))
          => /\ client' = "ready"
             /\ \A n \in DOMAIN MergedNetworks(evmConfig) :
                   n \in providers' <=> ~FailsToConnect(evmConfig, n)]_vars

\* The well-formed raw keys of a configuration.
GoodKeys(cfg) == {cfg.privateKeys[j] : j \in DOMAIN cfg.privateKeys} \ {BadKey}

\* The position at which a key first appears in a list.
FirstAt(keys, k) ==
    CHOOSE j \in DOMAIN keys : keys[j] = k /\ \A h \in 1..(j - 1) : keys[h] # k

\* The pool positions that hold a wallet of a configured raw key.
RawPositions == {i \in 1..Len(wallets) : wallets[i].privateKey \in GoodKeys(evmConfig)}

\* C13: a malformed raw key does not stop construction, and the constructed
\* pool starts with one wallet for each well-formed configured key, in the
\* order the keys are configured, and holds nothing for a malformed key;
\* without a usable mnemonic it holds nothing else.
SkipsMalformedKeys ==
    /\ [](client = "ready" =>
            /\ \A k \in GoodKeys(evmConfig) :
                  \E i \in 1..Len(wallets) :
                      wallets[i].privateKey = k /\ wallets[i].address = AddressOf(k)
            /\ \A i \in 1..Len(wallets) : wallets[i].privateKey # BadKey
            /\ RawPositions = 1..Cardinality(GoodKeys(evmConfig))
            /\ \A i, j \in RawPositions :
                  i < j <=> FirstAt(evmConfig.privateKeys, wallets[i].privateKey)
                              < FirstAt(evmConfig.privateKeys, wallets[j].privateKey)
            /\ evmConfig.mnemonic \in {Undefined, "invalid"} =>
                  Len(wallets) = Cardinality(GoodKeys(evmConfig)))
    /\ [][(/\ PluginInit
           /\ ~FailsToConnect(evmConfig, InitialNetwork(evmConfig)))
             => client' = "ready"]_vars

\* A pool built from a list with malformed keys at its first and last places.
SkipsMalformedKeysWitness ==
    /\ client = "ready"
    /\ evmConfig.privateKeys = <<BadKey, RawKey(2), BadKey>>
    /\ evmConfig.mnemonic = Undefined
    /\ MapKeys(wallets) = <<AddressOf(RawKey(2))>>

\* The key the claim expects at step i of the derivation (i = 0..9).
ExpectedHDKey(cfg, i) ==
    HDKey(cfg.mnemonic,
          IF cfg.hdPath = Undefined THEN "m/44'/60'/0'/0" ELSE cfg.hdPath,
          (IF cfg.accountIndex = <<>> THEN 0 ELSE cfg.accountIndex[1]) + i)

\* The pool positions of the wallets that are not of a configured raw key.
DerivedPositions == (1..Len(wallets)) \ RawPositions

\* C14: with a mnemonic (and a path) that derive, the constructed pool holds
\* the ten identities of hdPath/(accountIndex + i), i = 0..9, with the
\* defaults m/44'/60'/0'/0 and 0, and no other derived identity; they stand
\* after the raw-key identities, in increasing i.
DerivesTenIdentities ==
    (/\ client = "ready"
     /\ evmConfig.mnemonic = "valid"
     /\ evmConfig.hdPath # "invalid") =>
        /\ \A i \in 0..9 : MapHas(wallets, AddressOf(ExpectedHDKey(evmConfig, i)))
        /\ Cardinality({p \in 1..Len(wallets) :
              \E i \in 0..9 : wallets[p].privateKey = ExpectedHDKey(evmConfig, i)}) = 10
        /\ \A p \in DerivedPositions :
              \E i \in 0..9 : wallets[p].privateKey = ExpectedHDKey(evmConfig, i)
        /\ \A p \in DerivedPositions, q \in RawPositions : q < p
        /\ \A p, q \in DerivedPositions : \A i, j \in 0..9 :
              (/\ wallets[p].privateKey = ExpectedHDKey(evmConfig, i)
               /\ wallets[q].privateKey = ExpectedHDKey(evmConfig, j))
                  => (p < q <=> i < j)

\* A pool derived at a configured path from account 3 on, after a raw key.
DerivesTenIdentitiesWitness ==
    /\ client = "ready"
    /\ evmConfig.mnemonic = "valid"
    /\ evmConfig.hdPath = "m/44'/60'/1'/0"
    /\ evmConfig.accountIndex = <<3>>
    /\ evmConfig.privateKeys = <<RawKey(1)>>
    /\ Len(wallets) = 11
    /\ wallets[2].privateKey = HDKey("valid", "m/44'/60'/1'/0", 3)
    /\ wallets[11].privateKey = HDKey("valid", "m/44'/60'/1'/0", 12)

\* An error field that is set to a non-empty string.
Populated(v) == v # Undefined /\ v # ""

\* C15: callContract never raises; an invocation that fails (unknown method,
\* rejected call, missing connection) returns result null with a populated
\* error, and one that succeeds returns its value with no error field.
CallContractNeverRaises ==
    /\ [](\A c \in Calls :
            ops[c].op = "callContract" =>
                /\ ops[c].pc # "raised"
                /\ ops[c].pc = "returned" =>
                      /\ ~ops[c].result.null
                      /\ \/ /\ ops[c].result.result = "null"
                            /\ Populated(ops[c].result.error)
                         \/ /\ ops[c].result.result = "value"
                            /\ ops[c].result.error = Undefined)
    /\ [][\A c \in Calls :
            /\ (CallRejects(c) \/ callContract(c, "unknown")) =>
                  /\ ops'[c].pc = "returned"
                  /\ ops'[c].result.result = "null"
                  /\ Populated(ops'[c].result.error)
            /\ CallResolves(c) =>
                  /\ ops'[c].pc = "returned"
                  /\ ops'[c].result.error = Undefined]_vars

\* A callContract whose invocation was rejected and that returned the error.
CallContractNeverRaisesWitness ==
    \E c \in Calls :
        /\ ops[c].op = "callContract"
        /\ ops[c].pc = "returned"
        /\ ops[c].method = "known"
        /\ ops[c].result.error = ErrCallFailed

\* C16: sendContractTransaction never raises; a failure to resolve a signer,
\* a rejected submission and a failed confirmation are each returned with a
\* populated error and an empty hash, and a result without an error is
\* returned only for a confirmed transaction, with its receipt.
SendContractNeverRaises ==
    /\ [](\A c \in Calls :
            ops[c].op = "sendContractTransaction" =>
                /\ ops[c].pc # "raised"
                /\ ops[c].pc = "returned" =>
                      \/ /\ Populated(ops[c].result.error)
                         /\ ops[c].result.hash = ""
                      \/ /\ ops[c].result.error = Undefined
                         /\ ops[c].tx = "included"
                         /\ ops[c].result.receipt = "receipt"
                         /\ \E i \in 1..Len(ops[c].submitted) :
                               ops[c].submitted[i].accepted)
    /\ [][\A c \in Calls :
            /\ (\E m \in Methods, o \in OptionsSet :
                   /\ sendContractTransaction(c, m, o)
                   /\ \/ wallets = <<>>
                      \/ TruthyAddress(o.from) /\ ~HoldsAccount(wallets, o.from.acct))
                  => /\ ops'[c].pc = "returned"
                     /\ ops'[c].result.error = ErrNoWallet
                     /\ ops'[c].result.hash = ""
                     /\ ops'[c].submitted = <<>>
            /\ (OpSubmitRejected(c) \/ OpWaitRejects(c)) =>
                  (ops[c].op = "sendContractTransaction" =>
                      /\ ops'[c].pc = "returned"
                      /\ Populated(ops'[c].result.error)
                      /\ ops'[c].result.hash = "")]_vars

\* A contract transaction whose confirmation failed and that returned the
\* error, after one from an unknown address would have failed to resolve.
SendContractNeverRaisesWitness ==
    \E c \in Calls :
        /\ ops[c].op = "sendContractTransaction"
        /\ ops[c].pc = "returned"
        /\ ops[c].tx = "reverted"
        /\ ops[c].result.error = ErrWaitFailed
        /\ ops[c].result.hash = ""

\* C17: deployContract called with a from address the pool does not hold, or
\* on an empty pool, raises: it returns no result and submits nothing.
DeployPropagatesNoSigner ==
    /\ [](\A c \in Calls :
            (ops[c].op = "deployContract" /\ ops[c].thrown = ErrNoWalletDeploy) =>
                /\ ops[c].pc = "raised"
                /\ ops[c].result = NoResult
                /\ ops[c].submitted = <<>>
                /\ ops[c].tx = "none")
    /\ [][\A c \in Calls, o \in DeployOptions :
            (/\ deployContract(c, o)
             /\ \/ wallets = <<>>
                \/ TruthyAddress(o.from) /\ ~HoldsAccount(wallets, o.from.acct))
                => /\ ops'[c].pc = "raised"
                   /\ ops'[c].thrown = ErrNoWalletDeploy
                   /\ ops'[c].result = NoResult
                   /\ ops'[c].submitted = <<>>]_vars

\* A deployment from an unknown address that raised although the pool held
\* wallets.
DeployPropagatesNoSignerWitness ==
    \E c \in Calls :
        /\ ops[c].op = "deployContract"
        /\ ops[c].pc = "raised"
        /\ ops[c].options.from = Address(RawKey(9), "checksum")
        /\ Len(wallets) >= 2

\* C18: a getBlock for a block the node does not have returns null, a
\* getTransaction for a transaction the node does not have returns null
\* without waiting for a receipt, and neither raises.
AbsentLookupReturnsNull ==
    /\ [](\A c \in Calls :
            (ops[c].op \in {"getBlock", "getTransaction"} /\ ops[c].result.null) =>
                /\ ops[c].pc = "returned"
                /\ ops[c].thrown = ErrNone
                /\ ops[c].tx = "none")
    /\ [][\A c \in Calls :
            /\ (/\ GetBlockResolves(c)
                /\ ops[c].blockTag[1] = "number"
                /\ ops[c].blockTag[2] > ChainHeight)
                  => ops'[c].pc = "returned" /\ ops'[c].result = Null
            /\ GetTransactionResolves(c, "none")
                  => /\ ops'[c].pc = "returned"
                     /\ ops'[c].result = Null
                     /\ ops'[c].tx = "none"]_vars

\* A getBlock for the block after the node's last one that returned null.
AbsentLookupReturnsNullWitness ==
    \E c \in Calls :
        /\ ops[c].op = "getBlock"
        /\ ops[c].blockTag = <<"number", ChainHeight + 1>>
        /\ ops[c].pc = "returned"
        /\ ops[c].result = Null

\* C11: every call that has come to wait for the inclusion of a transaction
\* (sendTransaction, sendContractTransaction, deployContract, getTransaction,
\* waitForTransaction) eventually returns or fails, also when the network
\* never includes the transaction.
EveryWaitEnds ==
    \A c \in Calls :
        /\ (calls[c].pc = "waiting") ~> (calls[c].pc \in {"returned", "failed"})
        /\ (ops[c].pc = "waiting") ~> (ops[c].pc \in {"returned", "raised"})

\* The addresses listWallets gives, as a set.
ListedAddresses(m) == {m[i].address : i \in 1..Len(m)}

\* C19: after importWallet(k) of a well-formed key, resolving address(k)
\* gives one identity, of that address and key, bound to the current
\* connection; the pool's addresses are the former ones and address(k), and
\* importing a key that is already held adds no entry.
ImportRoundTrip ==
    [][\A k \in ImportKeys :
          (importWallet(k) /\ k # BadKey) =>
              LET found == ResolveWallet(wallets', AddressOf(k))
              IN /\ Len(found) = 1
                 /\ found[1].address = AddressOf(k)
                 /\ found[1].privateKey = k
                 /\ found[1].provider = currentNetwork'
                 /\ last' = Outcome("importWallet", ErrNone)
                 /\ ListedAddresses(wallets') =
                        ListedAddresses(wallets) \cup {AddressOf(k)}
                 /\ Cardinality(ListedAddresses(wallets')) = Len(wallets')
                 /\ MapHas(wallets, AddressOf(k)) => Len(wallets') = Len(wallets)]_vars

\* A configured key imported again after a switch: the pool has its two
\* entries, bound to the new connection.
ImportRoundTripWitness ==
    /\ client = "ready"
    /\ last = Outcome("importWallet", ErrNone)
    /\ evmConfig.privateKeys = <<RawKey(2), BadKey, RawKey(1)>>
    /\ currentNetwork = "polygon"
    /\ Len(wallets) = 2
    /\ wallets[2].privateKey = RawKey(1)
    /\ wallets[2].provider = "polygon"

\* C20: an address the pool holds stays listed and resolvable as a signer
\* after every step of the plugin (tool executions, switchNetwork,
\* createWallet, importWallet, init).
IdentitiesNeverRemoved ==
    [][\A i \in 1..Len(wallets) :
          /\ wallets[i].address \in ListedAddresses(wallets')
          /\ ResolveWallet(wallets', wallets[i].address) # <<>>]_vars

\* The descriptor that wins for a name: the user's, else the built-in one.
Winning(cfg, n) ==
    IF n \in DOMAIN cfg.networks THEN cfg.networks[n]
    ELSE Descriptor(n, COMMON_NETWORKS[n], FALSE)

\* C21: the table of a constructed client has the built-in and the user's
\* names, and the connection of every name (that constructs) was given the
\* chain id of the user's descriptor for that name if there is one, else of
\* the built-in one.
ConnectionHasWinningChainId ==
    client = "ready" =>
        /\ \A n \in DOMAIN evmConfig.networks \cup DOMAIN COMMON_NETWORKS :
              ~Winning(evmConfig, n).bad =>
                  /\ n \in providers
                  /\ n \in DOMAIN connections
                  /\ connections[n].chainId = Winning(evmConfig, n).chainId
        /\ providers \subseteq DOMAIN evmConfig.networks \cup DOMAIN COMMON_NETWORKS
        /\ DOMAIN connections = providers

\* A client whose user table replaces the built-in polygon by another chain.
ConnectionHasWinningChainIdWitness ==
    /\ client = "ready"
    /\ "polygon" \in DOMAIN evmConfig.networks
    /\ "polygon" \in DOMAIN connections
    /\ connections["polygon"].chainId = 80002
    /\ connections["mainnet"].chainId = 1

\* C27: getNetwork returns the descriptor registered under the name of the
\* cursor it read, also when another registered descriptor has the same
\* chain id.
GetNetworkReturnsCurrent ==
    [][\A c \in Calls :
          GetNetworkResolves(c) =>
              /\ ops'[c].pc = "returned"
              /\ ops'[c].result.network =
                     <<Winning(evmConfig, ops[c].provider)>>]_vars

\* C24: for every block number n that is given, 0 included, getBlock asks
\* the node for block n, and what it returns is block n or null.
GetBlockAsksGivenNumber ==
    [][\A c \in Calls : \A n \in 0..(ChainHeight + 1) :
          /\ getBlock(c, <<n>>) /\ ops'[c].pc = "invoking" =>
                ops'[c].blockTag = <<"number", n>>
          /\ GetBlockResolves(c) /\ ops[c].blockTag = BlockTag(<<n>>) =>
                \/ ops'[c].result = Null
                \/ ops'[c].result.number = <<n>>]_vars

\* C22: estimateGas reports the maxFeePerGas/maxPriorityFeePerGas pair and no
\* gasPrice when the node supplies both, else gasPrice alone when the node
\* supplies it, else the gas limit alone; the cost is gasLimit x maxFeePerGas,
\* gasLimit x gasPrice, or zero.
EstimateReportsOneFeeModel ==
    [][\A c \in Calls : \A f \in FeeDataSet :
          FeeDataResolves(c, f) =>
              LET e == ops'[c].result.estimation[1]
                  gasLimit == ops[c].gasLimit[1]
              IN /\ e.gasLimit = <<gasLimit>>
                 /\ IF f.maxFeePerGas # <<>> /\ f.maxPriorityFeePerGas # <<>>
                    THEN /\ e.maxFeePerGas = f.maxFeePerGas
                         /\ e.maxPriorityFeePerGas = f.maxPriorityFeePerGas
                         /\ e.gasPrice = <<>>
                         /\ e.estimatedCost.wei = gasLimit * f.maxFeePerGas[1]
                    ELSE IF f.gasPrice # <<>>
                    THEN /\ e.gasPrice = f.gasPrice
                         /\ e.maxFeePerGas = <<>>
                         /\ e.maxPriorityFeePerGas = <<>>
                         /\ e.estimatedCost.wei = gasLimit * f.gasPrice[1]
                    ELSE /\ e.gasPrice = <<>>
                         /\ e.maxFeePerGas = <<>>
                         /\ e.maxPriorityFeePerGas = <<>>
                         /\ e.estimatedCost.wei = 0]_vars

\* C23: when obtaining the resolver or its address fails, or the avatar
\* lookup fails, resolveENS still returns an ENSInfo with the name and the
\* resolved address, the failed field unset.
ResolveENSIsBestEffort ==
    [][\A c \in Calls :
          (ResolveENSRejects(c) \/ AvatarRejects(c))
              /\ ops[c].pc \in {"getResolver", "resolverAddress", "getAvatar"} =>
                  /\ ops'[c].pc = "returned"
                  /\ ops'[c].result.info # <<>>
                  /\ ops'[c].result.info[1].name = ops[c].info[1].name
                  /\ ops'[c].result.info[1].address = ops[c].info[1].address
                  /\ ops'[c].result.info[1].avatar = Undefined]_vars

\* The registry as hasTool and getTool see it.
Registry(m) == {m[i] : i \in 1..Len(m)}

\* C25: once constructed, the registry changes only by registerTool and
\* removeTool: no other operation, init() and executions included, brings a
\* removed tool back or replaces a registered definition; config.tools lists
\* the tools of the registry.
RegistryChangesOnlyByItsOperations ==
    /\ [](configTools = ToolValues(tools))
    /\ [][\/ \E t \in RegisteredTools : registerTool(t)
          \/ \E n \in RemovedNames : removeTool(n)
          \/ Registry(tools') = Registry(tools)]_vars

\* C26: an execution dispatches only once an init() has completed
\* successfully, and an execution that finds a client creates none.
DispatchOnlyAfterInit ==
    [][\A e \in Execs :
          /\ execs[e].pc # "dispatched" /\ execs'[e].pc = "dispatched" =>
                initSucceeded'
          /\ execute(e) /\ client # "null" =>
                UNCHANGED <<client, providers, connections, wallets>>]_vars

====
